---- MODULE Spec2Model ----
(***************************************************************************)
(* ComicFS: a FUSE filesystem projecting a relational catalog (comics,     *)
(* eposides, files, tags, taggables) and a content-addressed blob pool.    *)
(*                                                                         *)
(* The state is the persistent state of the daemon: the five catalog       *)
(* tables and the blob pool on the host filesystem.  One action per FUSE   *)
(* handler of src/src/fs.rs; every handler runs to completion (the         *)
(* transport delivers one request at a time).  `request` and `reply`       *)
(* record the request being served and what the handler answered.  A       *)
(* handler that panics (unwrap/expect/todo!/unreachable!) answers nothing: *)
(* reply.kind = "panic"; whatever it committed before the panic stays in   *)
(* the catalog and the pool, which a later mount serves again.             *)
(*                                                                         *)
(* The mount lifecycle (src/fuse-rs/src/channel.rs, src/src/main.rs) is    *)
(* the libfuse session behind the channel: the options handed to           *)
(* Channel::new, the fuse_args built from them, the calls made on the      *)
(* session, the Channel value, the kernel mount and the position of the    *)
(* process.  Spec serves requests on a mounted channel; SpecChannel runs   *)
(* the lifecycle itself; SpecFault serves the requests that reach a File   *)
(* on a host whose filesystem calls can fail.                              *)
(***************************************************************************)
EXTENDS Integers, Sequences, FiniteSets, TLC

VARIABLES comics, eposides, files, tags, taggables, shards, pool, request, reply,
          options, args, calls, channel, mounted, pc

catalog == <<comics, eposides, files, tags, taggables>>
storage == <<shards, pool>>
process == <<options, args, calls, channel, mounted, pc>>
vars == <<comics, eposides, files, tags, taggables, shards, pool, request, reply,
          options, args, calls, channel, mounted, pc>>

(***************************************************************************)
(* Bounds of the model.                                                    *)
(***************************************************************************)
\* rows of the whole catalog
MaxRows == 4
\* longest data buffer of a write
MaxData == 1
\* largest offset of a read or a write
MaxOffset == 1
\* largest size of a read and of a setattr
MaxSize == 1
\* longest mount option, in bytes, and longest option list
MaxOptLen == 2
MaxOptions == 2

\* two names of different byte lengths
Names == {"a", "bb"}
\* the bytes a write carries; a hole and an extension of a blob read as 0
Byte == {1}

(***************************************************************************)
(* Small helpers: Option<T> is a sequence of length 0 (None) or 1 (Some).  *)
(***************************************************************************)
None == << >>
Some(v) == <<v>>
IsSome(o) == Len(o) = 1
IsNone(o) == Len(o) = 0
Unwrap(o) == o[1]

\* an evaluation that panics (unwrap, todo!, unreachable!) yields PANIC, told
\* from an Option by its length
PANIC == <<"panic", "panic">>
Panics(o) == Len(o) = 2

SeqsUpTo(S, n) == UNION {[1..k -> S] : k \in 0..n}

Min(a, b) == IF a < b THEN a ELSE b
Max(a, b) == IF a < b THEN b ELSE a

\* the rows of a table that satisfy a test, in table order (.filter().load())
Filter(s, Test(_)) == SelectSeq(s, Test)

\* the first row of a table that satisfies a test (.filter().first().ok())
First(s, Test(_)) ==
    LET found == SelectSeq(s, Test)
    IN IF found = << >> THEN None ELSE Some(found[1])

\* the row with the greatest id (.order(id.desc()).first())
MaxIdOf(table) ==
    IF table = << >> THEN 0
    ELSE LET ids == {table[i].id : i \in 1..Len(table)}
         IN CHOOSE m \in ids : \A n \in ids : n <= m
\* the row with the least id (an ascending order)
FirstInserted(table) == table[1]
LastInserted(table) == CHOOSE r \in {table[i] : i \in 1..Len(table)} : r.id = MaxIdOf(table)

(***************************************************************************)
(* Inode codec.  A u64 is held as the set of its marker bits (59..63) and  *)
(* the value of its low 59 bits: [marks, node] <-> sum of 2^b + node.      *)
(***************************************************************************)
IS_FILE == 63
IS_EPOSIDE == 62
IS_COMIC == 61
IS_TAG == 60
IS_TAGGED == 59
MARK_MASK == {IS_COMIC, IS_EPOSIDE, IS_FILE, IS_TAG, IS_TAGGED}

\* Inode::from(u64) for a value below 2^59
InodeFrom(n) == [marks |-> {}, node |-> n]

is_file(ino) == IS_FILE \in ino.marks
is_eposide(ino) == IS_EPOSIDE \in ino.marks
is_comic(ino) == IS_COMIC \in ino.marks
is_tag(ino) == IS_TAG \in ino.marks
is_tagged(ino) == IS_TAGGED \in ino.marks
is_special(ino) == ino.marks \cap MARK_MASK = {}

kind(ino) ==
    IF is_file(ino) THEN "File"
    ELSE IF is_eposide(ino) THEN "Eposide"
    ELSE IF is_comic(ino) THEN "Comic"
    ELSE IF is_tag(ino) THEN "Tag"
    ELSE IF is_tagged(ino) THEN "Tagged"
    ELSE "Special"

\* self.0 & NODE_MASK
id(ino) == ino.node

\* a constructor that sets no marker bit
InodeComicUnmarked(n) == InodeFrom(n)
\* IS_x | id, for a row id (positive, below 2^31): the id only has low bits
InodeComic(n) == [marks |-> {IS_COMIC}, node |-> n]
\* an episode constructor that sets the marker bit of the comics
InodeEposideAsComic(n) == [marks |-> {IS_COMIC}, node |-> n]
InodeEposide(n) == [marks |-> {IS_EPOSIDE}, node |-> n]
InodeFile(n) == [marks |-> {IS_FILE}, node |-> n]
InodeTag(n) == [marks |-> {IS_TAG}, node |-> n]
\* a tagged inode that also keeps the marker of its tag directory
InodeTaggedInTag(n) == [marks |-> {IS_TAGGED, IS_TAG}, node |-> n]
InodeTagged(n) == [marks |-> {IS_TAGGED}, node |-> n]

ROOT_ID == 1
COMIC_ID == 2
TAGS_ID == 3

Kinds == {"File", "Eposide", "Comic", "Tag", "Tagged"}

\* the constructor of each kind
encode(k, n) ==
    CASE k = "File" -> InodeFile(n)
      [] k = "Eposide" -> InodeEposide(n)
      [] k = "Comic" -> InodeComic(n)
      [] k = "Tag" -> InodeTag(n)
      [] k = "Tagged" -> InodeTagged(n)
      [] OTHER -> InodeFrom(n)

Specials == {InodeFrom(ROOT_ID), InodeFrom(COMIC_ID), InodeFrom(TAGS_ID)}

(***************************************************************************)
(* Catalog gateway (src/src/models.rs).  A table is the sequence of its    *)
(* rows in rowid order.                                                    *)
(***************************************************************************)
Comic_find(n) == First(comics, LAMBDA r : r.id = n)
\* a find_by_name that finds no row
Comic_find_by_name_never(name) == None
Comic_find_by_name(name) == First(comics, LAMBDA r : r.name = name)

Episode_find(n) == First(eposides, LAMBDA r : r.id = n)
Episode_find_by_comic_and_name(comic_id, name) ==
    First(eposides, LAMBDA r : r.comic_id = comic_id /\ r.name = name)

File_find(n) == First(files, LAMBDA r : r.id = n)
File_find_by_eposide_and_name(eposide_id, name) ==
    First(files, LAMBDA r : r.eposid_id = eposide_id /\ r.name = name)

Tag_list == tags
Tag_find(n) == First(tags, LAMBDA r : r.id = n)
Tag_find_by_name(name) == First(tags, LAMBDA r : r.name = name)

Taggable_find(n) == First(taggables, LAMBDA r : r.id = n)

\* the name of a tagged entry: format!("{}_{}", ..) and format!("{}_{}_{}", ..)
EpisodeEntryName(comic, episode) == comic.name \o "_" \o episode.name
FileEntryName(comic, episode, file) ==
    comic.name \o "_" \o episode.name \o "_" \o file.name

from_taggable(taggable) ==
    CASE taggable.taggable_type = "comic" ->
           LET comic == Comic_find(taggable.taggable_id)
           IN IF IsNone(comic) THEN None
              ELSE Some([variant |-> "Comic", id |-> taggable.id,
                         target |-> Unwrap(comic), name |-> Unwrap(comic).name])
      [] taggable.taggable_type = "eposide" ->
           LET episode == Episode_find(taggable.taggable_id)
           IN IF IsNone(episode) THEN None
              ELSE LET comic == Comic_find(Unwrap(episode).comic_id)
                   IN IF IsNone(comic) THEN None
                      ELSE Some([variant |-> "Episode", id |-> taggable.id,
                                 target |-> Unwrap(episode),
                                 name |-> EpisodeEntryName(Unwrap(comic), Unwrap(episode))])
      [] taggable.taggable_type = "file" ->
           LET file == File_find(taggable.taggable_id)
           IN IF IsNone(file) THEN None
              ELSE LET episode == Episode_find(Unwrap(file).eposid_id)
                   IN IF IsNone(episode) THEN None
                      ELSE LET comic == Comic_find(Unwrap(episode).comic_id)
                           IN IF IsNone(comic) THEN None
                              ELSE Some([variant |-> "File", id |-> taggable.id,
                                         target |-> Unwrap(file),
                                         name |-> FileEntryName(Unwrap(comic), Unwrap(episode),
                                                                Unwrap(file))])
      [] OTHER -> None

Taggable_find_info(n) ==
    LET row == Taggable_find(n)
    IN IF IsNone(row) THEN None ELSE from_taggable(Unwrap(row))

\* Taggables::taggables: the rows of one tag, those without a target dropped
RECURSIVE FilterMapTaggables(_)
FilterMapTaggables(rows) ==
    IF rows = << >> THEN << >>
    ELSE from_taggable(Head(rows)) \o FilterMapTaggables(Tail(rows))
Taggables_taggables(tag_id) ==
    FilterMapTaggables(Filter(taggables, LAMBDA r : r.tag_id = tag_id))

\* the row a transaction inserts gets the next rowid
NextId(table) == MaxIdOf(table) + 1

(***************************************************************************)
(* Paths.  A path is the sequence of its components; an absolute path      *)
(* starts with the root component "/".                                     *)
(***************************************************************************)
\* ComicFS.base: the canonical mount point
base == <<"/", "mnt">>
\* STORAGE_BASE: the working directory joined with FILES_PATH
STORAGE_BASE == <<"/", "files">>

is_absolute(path) == path # << >> /\ path[1] = "/"

\* the string of a path: its components joined by the separator
RECURSIVE JoinComponents(_)
JoinComponents(path) ==
    IF path = << >> THEN ""
    ELSE IF Len(path) = 1 THEN path[1]
    ELSE path[1] \o "/" \o JoinComponents(Tail(path))
as_os_str(path) ==
    IF is_absolute(path) THEN "/" \o JoinComponents(Tail(path)) ELSE JoinComponents(path)
\* path.as_os_str().len()
PathLen(path) == Len(as_os_str(path))

\* path_clean::PathClean::clean: "." dropped, ".." removes the component before it
RECURSIVE CleanInto(_, _)
CleanInto(out, rest) ==
    IF rest = << >> THEN out
    ELSE LET c == Head(rest)
         IN IF c = "." THEN CleanInto(out, Tail(rest))
            ELSE IF c = ".."
                 THEN IF out = << >> \/ out[Len(out)] = ".."
                      THEN CleanInto(Append(out, c), Tail(rest))
                      ELSE IF out = <<"/">> THEN CleanInto(out, Tail(rest))
                      ELSE CleanInto(SubSeq(out, 1, Len(out) - 1), Tail(rest))
            ELSE CleanInto(Append(out, c), Tail(rest))
clean(path) == CleanInto(<< >>, path)

\* Path::strip_prefix: Err when prefix does not lead the path
strip_prefix(path, prefix) ==
    IF Len(path) >= Len(prefix) /\ SubSeq(path, 1, Len(prefix)) = prefix
    THEN Some(SubSeq(path, Len(prefix) + 1, Len(path)))
    ELSE None

(***************************************************************************)
(* Path engine (ComicFS::resolve, ComicFS::resolve_inode).                 *)
(***************************************************************************)
\* one iteration of the loop of resolve: the child of `parent` named `name`
resolve_step(parent, name) ==
    CASE kind(parent) = "Special" ->
           (CASE parent.node = ROOT_ID ->
                   IF name = "comics" THEN Some(InodeFrom(COMIC_ID))
                   ELSE IF name = "tags" THEN Some(InodeFrom(TAGS_ID))
                   ELSE PANIC
              [] parent.node = COMIC_ID ->
                   LET info == Comic_find_by_name(name)
                   IN IF IsNone(info) THEN None ELSE Some(InodeComic(Unwrap(info).id))
              [] parent.node = TAGS_ID ->
                   LET info == Tag_find_by_name(name)
                   IN IF IsNone(info) THEN None ELSE Some(InodeTag(Unwrap(info).id))
              [] OTHER -> PANIC)
      [] kind(parent) = "Comic" ->
           LET info == Episode_find_by_comic_and_name(id(parent), name)
           IN IF IsNone(info) THEN None ELSE Some(InodeEposide(Unwrap(info).id))
      [] kind(parent) = "Eposide" ->
           LET info == File_find_by_eposide_and_name(id(parent), name)
           IN IF IsNone(info) THEN None ELSE Some(InodeFile(Unwrap(info).id))
      [] OTHER -> PANIC

RECURSIVE resolve_from(_, _)
resolve_from(parent, path) ==
    IF path = << >> THEN Some(parent)
    ELSE LET next == resolve_step(parent, Head(path))
         IN IF IsSome(next) THEN resolve_from(Unwrap(next), Tail(path)) ELSE next

resolve(path) == resolve_from(InodeFrom(ROOT_ID), path)

\* the loop of resolve_inode: the components from the root down to ino,
\* without the base
RECURSIVE resolve_components(_)
resolve_components(ino) ==
    CASE kind(ino) = "Special" ->
           (CASE ino.node = ROOT_ID -> Some(<< >>)
              [] ino.node = COMIC_ID -> Some(<<"comics">>)
              [] ino.node = TAGS_ID -> Some(<<"tags">>)
              [] OTHER -> PANIC)
      [] kind(ino) = "Comic" ->
           LET info == Comic_find(id(ino))
           IN IF IsNone(info) THEN None
              ELSE LET up == resolve_components(InodeFrom(COMIC_ID))
                   IN IF IsSome(up) THEN Some(Unwrap(up) \o <<Unwrap(info).name>>) ELSE up
      [] kind(ino) = "Eposide" ->
           LET info == Episode_find(id(ino))
           IN IF IsNone(info) THEN None
              ELSE LET up == resolve_components(InodeComic(Unwrap(info).comic_id))
                   IN IF IsSome(up) THEN Some(Unwrap(up) \o <<Unwrap(info).name>>) ELSE up
      [] kind(ino) = "File" ->
           LET info == File_find(id(ino))
           IN IF IsNone(info) THEN None
              ELSE LET up == resolve_components(InodeEposide(Unwrap(info).eposid_id))
                   IN IF IsSome(up) THEN Some(Unwrap(up) \o <<Unwrap(info).name>>) ELSE up
      [] kind(ino) = "Tag" ->
           LET info == Tag_find(id(ino))
           IN IF IsNone(info) THEN None
              ELSE LET up == resolve_components(InodeFrom(TAGS_ID))
                   IN IF IsSome(up) THEN Some(Unwrap(up) \o <<Unwrap(info).name>>) ELSE up
      [] OTHER -> PANIC

\* a reverse resolution that forgets the base at the root
resolve_inode_without_base(ino) == resolve_components(ino)

resolve_inode(ino) ==
    LET found == resolve_components(ino)
    IN IF IsSome(found) THEN Some(base \o Unwrap(found)) ELSE found

(***************************************************************************)
(* Blob pool.  A content hash is the sequence of its hex digits; the empty *)
(* sequence is the empty string.  SHA-256 is taken to be injective: the    *)
(* digest of a buffer is its length, its bytes and a zero padding up to    *)
(* the fixed digest length.  `shards` is the set of shard directories      *)
(* under STORAGE_BASE, `pool` maps the path of a blob to its bytes.        *)
(***************************************************************************)
DigestLen == MaxData + 2

Sha256Hex(data) ==
    <<Len(data)>> \o data \o [i \in 1..(DigestLen - 1 - Len(data)) |-> 0]

\* a storage path without the shard directory
generate_storage_path_unsharded(content_hash) == Some(<<<< >>, content_hash>>)

\* a blob path below STORAGE_BASE: <<shard, hash>>; slicing [0..2] of a
\* string shorter than two bytes panics
generate_storage_path(content_hash) ==
    IF Len(content_hash) < 2 THEN PANIC
    ELSE Some(<<SubSeq(content_hash, 1, 2), content_hash>>)

inode_to_storage(ino) ==
    LET info == File_find(id(ino))
    IN IF IsNone(info) THEN None
       ELSE generate_storage_path(Unwrap(info).content_hash)

Exists(path) == path \in DOMAIN pool

\* FileExt::read_at with a buffer of `size` bytes
read_at(content, size, offset) ==
    IF offset >= Len(content) THEN << >>
    ELSE SubSeq(content, offset + 1, Min(Len(content), offset + size))

\* a write_at that reports the bytes as written and stores none
write_at_nothing(content, data, offset) == content

\* FileExt::write_at (pwrite): the hole before offset reads as zeros; a write
\* of no bytes leaves the length as it is
write_at(content, data, offset) ==
    IF data = << >> THEN content
    ELSE [i \in 1..Max(Len(content), offset + Len(data)) |->
             IF i > offset /\ i <= offset + Len(data) THEN data[i - offset]
             ELSE IF i <= Len(content) THEN content[i]
             ELSE 0]

\* an ftruncate that leaves the length as it is
ftruncate_nothing(content, size) == content

\* ftruncate: cut, or extend with zeros
ftruncate(content, size) ==
    [i \in 1..size |-> IF i <= Len(content) THEN content[i] ELSE 0]

\* a pool that gets no blob for an empty buffer
PutUnlessEmpty(path, content) ==
    IF content = << >> THEN pool
    ELSE [p \in DOMAIN pool \cup {path} |-> IF p = path THEN content ELSE pool[p]]

\* the pool after path holds content
Put(path, content) ==
    [p \in DOMAIN pool \cup {path} |-> IF p = path THEN content ELSE pool[p]]

(***************************************************************************)
(* Attributes: the fields of FileAttr that differ between replies.         *)
(***************************************************************************)
\* 0o755, 0o644, and the st_mode the host reports for a blob (0o100644)
DirPerm == 493
FilePerm == 420
HostMode == 33188

ROOT_DIR_ATTR ==
    [ino |-> InodeFrom(ROOT_ID), size |-> 0, kind |-> "Directory", perm |-> DirPerm, nlink |-> 2]
SPECIAL_DIR_ATTRS ==
    <<[ino |-> InodeFrom(COMIC_ID), size |-> 0, kind |-> "Directory", perm |-> DirPerm, nlink |-> 2],
      [ino |-> InodeFrom(TAGS_ID), size |-> 0, kind |-> "Directory", perm |-> DirPerm, nlink |-> 2]>>
directory_attr(inode) ==
    [ino |-> inode, size |-> 0, kind |-> "Directory", perm |-> DirPerm, nlink |-> 2]
symlink_attr(inode, size) ==
    [ino |-> inode, size |-> size, kind |-> "Symlink", perm |-> DirPerm, nlink |-> 1]
file_attr(inode) ==
    [ino |-> inode, size |-> 0, kind |-> "RegularFile", perm |-> FilePerm, nlink |-> 2]
\* the attributes of a blob: its length; mode and times are the host's
convert_meta_to_attr(ino, path) ==
    [ino |-> ino, size |-> Len(pool[path]), kind |-> "RegularFile", perm |-> HostMode, nlink |-> 1]

(***************************************************************************)
(* Replies.                                                                *)
(***************************************************************************)
ReplyError(errno) == [kind |-> "error", errno |-> errno]
ReplyEntry(attr) == [kind |-> "entry", attr |-> attr]
ReplyAttr(attr) == [kind |-> "attr", attr |-> attr]
ReplyCreated(attr) == [kind |-> "created", attr |-> attr]
ReplyDirectory(entries) == [kind |-> "directory", entries |-> entries]
ReplyData(data) == [kind |-> "data", data |-> data]
ReplyWritten(size) == [kind |-> "written", size |-> size]
\* the handler panicked: the request gets no reply
ReplyPanic == [kind |-> "panic"]

\* an Option<FileAttr> answered as in `match attr { Some => entry, None => ENOENT }`
EntryOrEnoent(attr) ==
    IF Panics(attr) THEN ReplyPanic
    ELSE IF IsSome(attr) THEN ReplyEntry(Unwrap(attr)) ELSE ReplyError("ENOENT")
AttrOrEnoent(attr) ==
    IF Panics(attr) THEN ReplyPanic
    ELSE IF IsSome(attr) THEN ReplyAttr(Unwrap(attr)) ELSE ReplyError("ENOENT")

\* the attributes of a File row: synthetic while content_hash is empty, else
\* those of its blob (None when fs::metadata fails)
FileRowAttr(info) ==
    IF info.content_hash = << >> THEN Some(file_attr(InodeFile(info.id)))
    ELSE LET path == generate_storage_path(info.content_hash)
         IN IF Panics(path) THEN PANIC
            ELSE IF ~Exists(Unwrap(path)) THEN None
            ELSE Some(convert_meta_to_attr(InodeFile(info.id), Unwrap(path)))

\* the inode a tagged entry stands for, as lookup builds it: the kind of the
\* entry with the id of the taggable row
LookupTaggedTarget(entry) ==
    CASE entry.variant = "Comic" -> InodeComic(entry.id)
      [] entry.variant = "Episode" -> InodeEposide(entry.id)
      [] entry.variant = "File" -> InodeFile(entry.id)

(***************************************************************************)
(* The handlers that only read: their reply as a function of the state.    *)
(***************************************************************************)
\* a request name whose bytes are not valid UTF-8
NotUtf8 == "\\xFF"
\* OsStr::to_str: None unless the bytes are valid UTF-8
to_str(name) == IF name = NotUtf8 THEN None ELSE Some(name)

lookup_reply(parent, name) ==
    CASE parent = InodeFrom(ROOT_ID) ->
           IF name = "comics" THEN ReplyEntry(SPECIAL_DIR_ATTRS[1])
           ELSE IF name = "tags" THEN ReplyEntry(SPECIAL_DIR_ATTRS[2])
           ELSE ReplyError("ENOENT")
      [] parent = InodeFrom(COMIC_ID) ->
           IF IsNone(to_str(name)) THEN ReplyPanic
           ELSE LET info == Comic_find_by_name(name)
                IN IF IsSome(info) THEN ReplyEntry(directory_attr(InodeComic(Unwrap(info).id)))
                   ELSE ReplyError("ENOENT")
      [] parent = InodeFrom(TAGS_ID) ->
           IF IsNone(to_str(name)) THEN ReplyPanic
           ELSE LET info == Tag_find_by_name(name)
                IN IF IsSome(info) THEN ReplyEntry(directory_attr(InodeTag(Unwrap(info).id)))
                   ELSE ReplyError("ENOENT")
      [] IsNone(to_str(name)) /\ kind(parent) \in {"Comic", "Eposide", "Tag"} -> ReplyPanic
      [] OTHER ->
           CASE kind(parent) = "Comic" ->
                  LET info == Episode_find_by_comic_and_name(id(parent), name)
                  IN IF IsSome(info)
                     THEN ReplyEntry(directory_attr(InodeEposide(Unwrap(info).id)))
                     ELSE ReplyError("ENOENT")
             [] kind(parent) = "Eposide" ->
                  LET info == File_find_by_eposide_and_name(id(parent), name)
                  IN IF IsSome(info) THEN EntryOrEnoent(FileRowAttr(Unwrap(info)))
                     ELSE ReplyError("ENOENT")
             [] kind(parent) = "Tag" ->
                  LET found == First(Taggables_taggables(id(parent)),
                                     LAMBDA e : e.name = name)
                  IN IF IsNone(found) THEN ReplyError("ENOENT")
                     ELSE LET path == resolve_inode(LookupTaggedTarget(Unwrap(found)))
                          IN IF ~IsSome(path) THEN ReplyPanic
                             ELSE ReplyEntry(symlink_attr(InodeTagged(Unwrap(found).id),
                                                          PathLen(Unwrap(path))))
             [] OTHER -> ReplyPanic

\* the target inode of a taggable row, as getattr builds it
GetattrTaggedTarget(info) ==
    CASE info.taggable_type = "comic" -> Some(InodeComic(info.taggable_id))
      [] info.taggable_type = "eposide" -> Some(InodeEposide(info.taggable_id))
      [] info.taggable_type = "file" -> Some(InodeFile(info.taggable_id))
      [] OTHER -> PANIC

getattr_reply(ino) ==
    CASE ino = InodeFrom(ROOT_ID) -> ReplyAttr(ROOT_DIR_ATTR)
      [] ino = InodeFrom(COMIC_ID) -> ReplyAttr(SPECIAL_DIR_ATTRS[1])
      [] ino = InodeFrom(TAGS_ID) -> ReplyAttr(SPECIAL_DIR_ATTRS[2])
      [] OTHER ->
           CASE kind(ino) = "Comic" ->
                  LET info == Comic_find(id(ino))
                  IN IF IsSome(info) THEN ReplyAttr(directory_attr(InodeComic(Unwrap(info).id)))
                     ELSE ReplyError("ENOENT")
             [] kind(ino) = "Eposide" ->
                  LET info == Episode_find(id(ino))
                  IN IF IsSome(info)
                     THEN ReplyAttr(directory_attr(InodeEposide(Unwrap(info).id)))
                     ELSE ReplyError("ENOENT")
             [] kind(ino) = "File" ->
                  LET info == File_find(id(ino))
                  IN IF IsSome(info) THEN AttrOrEnoent(FileRowAttr(Unwrap(info)))
                     ELSE ReplyError("ENOENT")
             [] kind(ino) = "Tag" ->
                  LET info == Tag_find(id(ino))
                  IN IF IsSome(info) THEN ReplyAttr(directory_attr(InodeTag(Unwrap(info).id)))
                     ELSE ReplyError("ENOENT")
             [] kind(ino) = "Tagged" ->
                  LET info == Taggable_find(id(ino))
                  IN IF IsNone(info) THEN ReplyError("ENOENT")
                     ELSE LET target == GetattrTaggedTarget(Unwrap(info))
                          IN IF Panics(target) THEN ReplyPanic
                             ELSE LET path == resolve_inode(Unwrap(target))
                                  IN IF ~IsSome(path) THEN ReplyPanic
                                     ELSE ReplyAttr(symlink_attr(ino, PathLen(Unwrap(path))))
             [] OTHER -> ReplyPanic

\* reply.add(ino, i + 1, kind, name) for every row of a listing
DirEntries(rows, Ino(_), type) ==
    [i \in 1..Len(rows) |->
        [ino |-> Ino(rows[i]), offset |-> i, kind |-> type, name |-> rows[i].name]]

readdir_reply(ino, offset) ==
    CASE ino = InodeFrom(ROOT_ID) ->
           ReplyDirectory(IF offset = 0
                THEN <<[ino |-> InodeFrom(1), offset |-> 1, kind |-> "Directory", name |-> "."],
                       [ino |-> InodeFrom(1), offset |-> 2, kind |-> "Directory", name |-> ".."],
                       [ino |-> InodeFrom(2), offset |-> 3, kind |-> "Directory", name |-> "comics"],
                       [ino |-> InodeFrom(3), offset |-> 4, kind |-> "Directory", name |-> "tags"]>>
                ELSE << >>)
      [] ino = InodeFrom(COMIC_ID) ->
           ReplyDirectory(IF offset = 0
                THEN DirEntries(comics, LAMBDA r : InodeComic(r.id), "Directory")
                ELSE << >>)
      [] ino = InodeFrom(TAGS_ID) ->
           ReplyDirectory(IF offset = 0
                THEN DirEntries(Tag_list, LAMBDA r : InodeTag(r.id), "Directory")
                ELSE << >>)
      [] OTHER ->
           CASE kind(ino) = "Comic" ->
                  ReplyDirectory(IF offset = 0
                       THEN DirEntries(Filter(eposides, LAMBDA r : r.comic_id = id(ino)),
                                       LAMBDA r : InodeEposide(r.id), "Directory")
                       ELSE << >>)
             [] kind(ino) = "Eposide" ->
                  ReplyDirectory(IF offset = 0
                       THEN DirEntries(Filter(files, LAMBDA r : r.eposid_id = id(ino)),
                                       LAMBDA r : InodeFile(r.id), "RegularFile")
                       ELSE << >>)
             [] kind(ino) = "Tag" ->
                  ReplyDirectory(IF offset = 0
                       THEN DirEntries(Taggables_taggables(id(ino)),
                                       LAMBDA e : InodeTagged(e.id), "Symlink")
                       ELSE << >>)
             [] OTHER -> ReplyPanic

read_reply(ino, offset, size) ==
    IF kind(ino) # "File" THEN ReplyError("EISDIR")
    ELSE LET path == inode_to_storage(ino)
         IN IF Panics(path) THEN ReplyPanic
            ELSE IF IsNone(path) THEN ReplyError("ENOENT")
            ELSE IF Exists(Unwrap(path))
                 THEN ReplyData(read_at(pool[Unwrap(path)], size, offset))
                 ELSE ReplyData(<< >>)

\* a readlink that takes the id of the taggable row for the id of its target
ReadlinkTargetByRowId(info) ==
    CASE info.variant = "Comic" -> InodeComic(info.id)
      [] info.variant = "Episode" -> InodeEposide(info.id)
      [] info.variant = "File" -> InodeFile(info.id)

\* the inode of the entity a tagged entry holds, as readlink builds it
ReadlinkTarget(info) ==
    CASE info.variant = "Comic" -> InodeComic(info.target.id)
      [] info.variant = "Episode" -> InodeEposide(info.target.id)
      [] info.variant = "File" -> InodeFile(info.target.id)

\* the path is answered as its bytes: the model keeps the path
readlink_reply(ino) ==
    IF kind(ino) # "Tagged" THEN ReplyError("EINVAL")
    ELSE LET info == Taggable_find_info(id(ino))
         IN IF IsNone(info) THEN ReplyError("ENOENT")
            ELSE LET path == resolve_inode(ReadlinkTarget(Unwrap(info)))
                 IN IF ~IsSome(path) THEN ReplyPanic
                    ELSE ReplyData(Unwrap(path))

(***************************************************************************)
(* The unique constraints of the schema (the SQL migrations): an insert    *)
(* that breaks one fails, and the handler's expect/unwrap panics.          *)
(***************************************************************************)
ComicNameFree(name) == IsNone(Comic_find_by_name(name))
TagNameFree(name) == IsNone(Tag_find_by_name(name))
EpisodeNameFree(comic_id, name) == IsNone(Episode_find_by_comic_and_name(comic_id, name))
FileNameFree(eposide_id, name) == IsNone(File_find_by_eposide_and_name(eposide_id, name))

(***************************************************************************)
(* Requests.  The kernel names a parent or a link source only by an inode  *)
(* it was given, and rows are never deleted: the handlers that insert are  *)
(* driven with the inodes of the special nodes and of existing rows        *)
(* (Known).  The other handlers also get, for each kind, the inode of the  *)
(* next row id, which has no row (Inodes).                                 *)
(***************************************************************************)
TableOf(k) ==
    CASE k = "Comic" -> comics
      [] k = "Eposide" -> eposides
      [] k = "File" -> files
      [] k = "Tag" -> tags
      [] k = "Tagged" -> taggables
Known ==
    Specials \cup UNION {{encode(k, TableOf(k)[i].id) : i \in 1..Len(TableOf(k))} : k \in Kinds}
Inodes == Known \cup {encode(k, NextId(TableOf(k))) : k \in Kinds}

Rows == Len(comics) + Len(eposides) + Len(files) + Len(tags) + Len(taggables)

Datas == SeqsUpTo(Byte, MaxData)
Offsets == 0..MaxOffset
Sizes == 0..MaxSize
\* the name of a link is not looked at by link and symlink
LinkNames == {"n"}

\* the names of the entries of the tag directories
EntryNames ==
    UNION {{Taggables_taggables(tags[i].id)[j].name :
                j \in 1..Len(Taggables_taggables(tags[i].id))} : i \in 1..Len(tags)}
LookupNames == Names \cup {"comics", "tags", NotUtf8} \cup EntryNames

\* symlink targets: paths below the mount point, relative ones, one elsewhere
BelowBase ==
    {<< >>, <<"comics">>, <<"tags">>, <<"lost+found">>}
    \cup {<<"comics", n>> : n \in Names}
    \cup {<<"comics", n, "a">> : n \in Names}
    \cup {<<"comics", "a", "a", "a">>}
    \cup {<<"tags", n>> : n \in Names}
    \cup {<<"tags", "a", "a">>}
LinkTargets ==
    {base \o p : p \in BelowBase}
    \cup {<<"comics", n>> : n \in Names}
    \cup {<<"..", "..", "comics", "a">>}
    \cup {<<"/", "srv">>}

(***************************************************************************)
(* Mount options and the channel (src/fuse-rs/src/channel.rs).  An option  *)
(* is an OsStr: a sequence of bytes, 0 being NUL.                          *)
(***************************************************************************)
\* the bytes of the options TLC draws: NUL, '-' and 'o'
OptBytes == {0, 45, 111}
\* ["-o", "rw", "-o", "fsname=comic"], the options of fs::mount
MountOptions ==
    <<
      <<45, 111>>,
      <<114, 119>>,
      <<45, 111>>,
      <<102, 115, 110, 97, 109, 101, 61, 99, 111, 109, 105, 99>>
    >>
OptionLists == SeqsUpTo(SeqsUpTo(OptBytes, MaxOptLen), MaxOptions) \cup {MountOptions}

\* "fuse-rs"
ProgramName == <<102, 117, 115, 101, 45, 114, 115>>

\* CString::new: Err on an interior NUL, else the bytes and their terminator
CString_new(bytes) ==
    IF \E i \in 1..Len(bytes) : bytes[i] = 0 THEN None ELSE Some(Append(bytes, 0))

\* CStr::from_ptr(p).to_bytes(): the bytes at p up to the first NUL
RECURSIVE CStr_to_bytes(_)
CStr_to_bytes(buffer) ==
    IF buffer = << >> \/ Head(buffer) = 0 THEN << >>
    ELSE <<Head(buffer)>> \o CStr_to_bytes(Tail(buffer))

\* a with_fuse_args that leaves the program name out
with_fuse_args_without_name(opts) ==
    LET strings == [i \in 1..Len(opts) |-> CString_new(opts[i])]
    IN IF \E i \in 1..Len(strings) : IsNone(strings[i]) THEN PANIC
       ELSE Some([argc |-> Len(strings),
                  argv |-> [i \in 1..Len(strings) |-> Unwrap(strings[i])],
                  allocated |-> 0])

\* the fuse_args with_fuse_args hands to its closure: argv[1] is element 0;
\* the unwrap of a failed CString::new panics
with_fuse_args(opts) ==
    LET strings == <<CString_new(ProgramName)>>
                   \o [i \in 1..Len(opts) |-> CString_new(opts[i])]
    IN IF \E i \in 1..Len(strings) : IsNone(strings[i]) THEN PANIC
       ELSE Some([argc |-> Len(strings),
                  argv |-> [i \in 1..Len(strings) |-> Unwrap(strings[i])],
                  allocated |-> 0])

\* Drop for Channel: the calls made on the session, after the drop
drop(made) == made \o <<"fuse_session_unmount", "fuse_session_destroy">>

\* the session waits for a request
Idle == [op |-> "idle"]
NoReply == [kind |-> "none"]
Waiting == request.op = "idle"

(***************************************************************************)
(* Init: the daemon is mounted on an empty catalog and an empty pool and   *)
(* waits for its first request.                                            *)
(***************************************************************************)
Init ==
    /\ comics = << >>
    /\ eposides = << >>
    /\ files = << >>
    /\ tags = << >>
    /\ taggables = << >>
    /\ shards = {}
    /\ pool = << >>
    /\ request = Idle
    /\ reply = NoReply
    /\ options = MountOptions
    /\ args = with_fuse_args(MountOptions)
    /\ calls = <<"fuse_session_new", "fuse_session_mount", "fuse_session_fd">>
    /\ channel = Some([mountpoint |-> base, se |-> "session"])
    /\ mounted = TRUE
    /\ pc = "run"

(***************************************************************************)
(* Handlers.                                                               *)
(***************************************************************************)
lookup(parent, name) ==
    /\ request' = [op |-> "lookup", parent |-> parent, name |-> name]
    /\ reply' = lookup_reply(parent, name)
    /\ UNCHANGED <<catalog, storage>>

getattr(ino) ==
    /\ request' = [op |-> "getattr", ino |-> ino]
    /\ reply' = getattr_reply(ino)
    /\ UNCHANGED <<catalog, storage>>

readdir(ino, offset) ==
    /\ request' = [op |-> "readdir", ino |-> ino, offset |-> offset]
    /\ reply' = readdir_reply(ino, offset)
    /\ UNCHANGED <<catalog, storage>>

\* a read that opens its blob with File::create, which truncates it
read_truncating(ino, offset, size) ==
    /\ request' = [op |-> "read", ino |-> ino, offset |-> offset, size |-> size]
    /\ reply' = read_reply(ino, offset, size)
    /\ pool' = [p \in DOMAIN pool |->
                   IF inode_to_storage(ino) = Some(p) THEN << >> ELSE pool[p]]
    /\ UNCHANGED <<catalog, shards>>

read(ino, offset, size) ==
    /\ request' = [op |-> "read", ino |-> ino, offset |-> offset, size |-> size]
    /\ reply' = read_reply(ino, offset, size)
    /\ UNCHANGED <<catalog, storage>>

\* a readlink that takes the id of any inode for the id of a taggable row
readlink_of_any_kind(ino) ==
    /\ request' = [op |-> "readlink", ino |-> ino]
    /\ reply' = readlink_reply(InodeTagged(id(ino)))
    /\ UNCHANGED <<catalog, storage>>

readlink(ino) ==
    /\ request' = [op |-> "readlink", ino |-> ino]
    /\ reply' = readlink_reply(ino)
    /\ UNCHANGED <<catalog, storage>>

\* a mkdir that inserts a Comic whatever its parent is
mkdir_anywhere(parent, name) ==
    /\ request' = [op |-> "mkdir", parent |-> parent, name |-> name]
    /\ Rows < MaxRows
    /\ comics' = Append(comics, [id |-> NextId(comics), name |-> name])
    /\ reply' = ReplyEntry(directory_attr(InodeComic(NextId(comics))))
    /\ UNCHANGED <<eposides, files, tags, taggables, storage>>

mkdir(parent, name) ==
    /\ request' = [op |-> "mkdir", parent |-> parent, name |-> name]
    /\ CASE kind(parent) = "Special" /\ parent.node = 1 ->
              /\ reply' = ReplyError("EPERM")
              /\ UNCHANGED <<catalog, storage>>
         [] kind(parent) = "Special" /\ parent.node = 2 ->
              IF ComicNameFree(name)
              THEN /\ Rows < MaxRows
                   /\ comics' = Append(comics, [id |-> NextId(comics), name |-> name])
                   /\ reply' = ReplyEntry(directory_attr(InodeComic(LastInserted(comics').id)))
                   /\ UNCHANGED <<eposides, files, tags, taggables, storage>>
              ELSE /\ reply' = ReplyPanic
                   /\ UNCHANGED <<catalog, storage>>
         [] kind(parent) = "Special" /\ parent.node = 3 ->
              IF TagNameFree(name)
              THEN /\ Rows < MaxRows
                   /\ tags' = Append(tags, [id |-> NextId(tags), name |-> name])
                   /\ reply' = ReplyEntry(directory_attr(InodeTag(LastInserted(tags').id)))
                   /\ UNCHANGED <<comics, eposides, files, taggables, storage>>
              ELSE /\ reply' = ReplyPanic
                   /\ UNCHANGED <<catalog, storage>>
         [] kind(parent) = "Special" /\ parent.node \notin {1, 2, 3} ->
              /\ reply' = ReplyPanic
              /\ UNCHANGED <<catalog, storage>>
         [] kind(parent) = "Comic" ->
              IF EpisodeNameFree(id(parent), name)
              THEN /\ Rows < MaxRows
                   /\ eposides' = Append(eposides, [id |-> NextId(eposides), name |-> name,
                                                    comic_id |-> id(parent)])
                   /\ reply' = ReplyEntry(directory_attr(InodeEposide(LastInserted(eposides').id)))
                   /\ UNCHANGED <<comics, files, tags, taggables, storage>>
              ELSE /\ reply' = ReplyPanic
                   /\ UNCHANGED <<catalog, storage>>
         [] kind(parent) \in {"Eposide", "Tag"} ->
              /\ reply' = ReplyError("EPERM")
              /\ UNCHANGED <<catalog, storage>>
         [] kind(parent) \in {"File", "Tagged"} ->
              /\ reply' = ReplyError("ENOTDIR")
              /\ UNCHANGED <<catalog, storage>>

\* a create that inserts a File whatever its parent is
create_anywhere(parent, name) ==
    /\ request' = [op |-> "create", parent |-> parent, name |-> name]
    /\ Rows < MaxRows
    /\ files' = Append(files, [id |-> NextId(files), name |-> name,
                               content_hash |-> << >>, eposid_id |-> id(parent)])
    /\ reply' = ReplyCreated(file_attr(InodeFile(NextId(files))))
    /\ UNCHANGED <<comics, eposides, tags, taggables, storage>>

create(parent, name) ==
    /\ request' = [op |-> "create", parent |-> parent, name |-> name]
    /\ IF kind(parent) # "Eposide"
       THEN /\ reply' = ReplyError("EPERM")
            /\ UNCHANGED <<catalog, storage>>
       ELSE IF FileNameFree(id(parent), name)
       THEN /\ Rows < MaxRows
            /\ files' = Append(files, [id |-> NextId(files), name |-> name,
                                       content_hash |-> << >>, eposid_id |-> id(parent)])
            /\ reply' = ReplyCreated(file_attr(InodeFile(LastInserted(files').id)))
            /\ UNCHANGED <<comics, eposides, tags, taggables, storage>>
       ELSE /\ reply' = ReplyPanic
            /\ UNCHANGED <<catalog, storage>>

\* an UPDATE that lost its WHERE clause
update_content_hash_everywhere(info, content_hash) ==
    [i \in 1..Len(files) |-> [files[i] EXCEPT !.content_hash = content_hash]]

\* File::update_content_hash: UPDATE files SET content_hash WHERE id = self.id
update_content_hash(info, content_hash) ==
    [i \in 1..Len(files) |->
        IF files[i].id = info.id THEN [files[i] EXCEPT !.content_hash = content_hash]
        ELSE files[i]]

\* a setattr that answers the requested size for any inode and does nothing
setattr_unchecked(ino, size) ==
    /\ request' = [op |-> "setattr", ino |-> ino, size |-> size]
    /\ reply' = ReplyAttr([file_attr(ino) EXCEPT !.size = IF IsSome(size) THEN Unwrap(size) ELSE 0])
    /\ UNCHANGED <<catalog, storage>>

setattr(ino, size) ==
    /\ request' = [op |-> "setattr", ino |-> ino, size |-> size]
    /\ IF kind(ino) # "File"
       THEN /\ reply' = ReplyError("ENOSYS")
            /\ UNCHANGED <<catalog, storage>>
       ELSE LET info == File_find(id(ino))
            IN IF IsNone(info)
               THEN /\ reply' = ReplyError("ENOENT")
                    /\ UNCHANGED <<catalog, storage>>
               ELSE IF Unwrap(info).content_hash = << >>
               THEN /\ reply' = ReplyAttr(file_attr(ino))
                    /\ UNCHANGED <<catalog, storage>>
               ELSE LET path == Unwrap(generate_storage_path(Unwrap(info).content_hash))
                    IN IF ~Exists(path)
                       THEN /\ reply' = ReplyError("ENOENT")
                            /\ UNCHANGED <<catalog, storage>>
                       ELSE /\ pool' = IF IsSome(size)
                                       THEN Put(path, ftruncate(pool[path], Unwrap(size)))
                                       ELSE pool
                            /\ reply' = ReplyAttr([ino |-> ino,
                                                   size |-> Len(pool'[path]),
                                                   kind |-> "RegularFile",
                                                   perm |-> HostMode,
                                                   nlink |-> 1])
                            /\ UNCHANGED <<catalog, shards>>

\* a write that looks neither at the kind of the inode nor for its row
write_unchecked(ino, offset, data) ==
    /\ request' = [op |-> "write", ino |-> ino, offset |-> offset, data |-> data]
    /\ shards' = shards \cup {SubSeq(Sha256Hex(data), 1, 2)}
    /\ pool' = Put(<<SubSeq(Sha256Hex(data), 1, 2), Sha256Hex(data)>>, write_at(<< >>, data, offset))
    /\ reply' = ReplyWritten(Len(data))
    /\ UNCHANGED catalog

write(ino, offset, data) ==
    /\ request' = [op |-> "write", ino |-> ino, offset |-> offset, data |-> data]
    /\ IF kind(ino) # "File"
       THEN /\ reply' = ReplyError("EISDIR")
            /\ UNCHANGED <<catalog, storage>>
       ELSE LET info == File_find(id(ino))
            IN IF IsNone(info)
               THEN /\ reply' = ReplyError("ENOENT")
                    /\ UNCHANGED <<catalog, storage>>
               ELSE IF Unwrap(info).content_hash = << >>
               THEN LET res == Sha256Hex(data)
                        path == Unwrap(generate_storage_path(res))
                    IN \* create_dir_all, update_content_hash, File::create, write_at
                       /\ shards' = shards \cup {path[1]}
                       /\ files' = update_content_hash(Unwrap(info), res)
                       /\ pool' = Put(path, write_at(<< >>, data, offset))
                       /\ reply' = ReplyWritten(Len(data))
                       /\ UNCHANGED <<comics, eposides, tags, taggables>>
               ELSE LET path == Unwrap(generate_storage_path(Unwrap(info).content_hash))
                    IN IF ~Exists(path)
                       THEN /\ reply' = ReplyPanic
                            /\ UNCHANGED <<catalog, storage>>
                       ELSE /\ pool' = Put(path, write_at(pool[path], data, offset))
                            /\ reply' = ReplyWritten(Len(data))
                            /\ UNCHANGED <<catalog, shards>>

\* Taggable::comic(tag_id, comic_id, conn): the table after the insert
Taggable_comic(tag_id, comic_id) ==
    Append(taggables, [id |-> NextId(taggables), tag_id |-> tag_id,
                       taggable_id |-> comic_id, taggable_type |-> "comic"])

\* a link that inserts its row before it looks at the kind of the inode
link_inserting_first(ino, newparent, newname) ==
    /\ request' = [op |-> "link", ino |-> ino, newparent |-> newparent, newname |-> newname]
    /\ Rows < MaxRows
    /\ taggables' = Taggable_comic(id(ino), id(newparent))
    /\ reply' = IF kind(ino) = "Comic" THEN ReplyEntry(directory_attr(ino))
                ELSE ReplyError("EPERM")
    /\ UNCHANGED <<comics, eposides, files, tags, storage>>

link(ino, newparent, newname) ==
    /\ request' = [op |-> "link", ino |-> ino, newparent |-> newparent, newname |-> newname]
    /\ CASE kind(ino) \in {"Special", "Tag"} ->
              /\ reply' = ReplyError("EPERM")
              /\ UNCHANGED <<catalog, storage>>
         [] kind(ino) = "Comic" ->
              /\ Rows < MaxRows
              /\ taggables' = Taggable_comic(id(ino), id(newparent))
              /\ reply' = ReplyEntry(directory_attr(ino))
              /\ UNCHANGED <<comics, eposides, files, tags, storage>>
         [] kind(ino) \in {"Eposide", "File", "Tagged"} ->
              /\ reply' = ReplyPanic
              /\ UNCHANGED <<catalog, storage>>

symlink(parent, name, link_target) ==
    /\ request' = [op |-> "symlink", parent |-> parent, name |-> name, link |-> link_target]
    /\ IF kind(parent) # "Tag"
       THEN /\ reply' = ReplyError("EPERM")
            /\ UNCHANGED <<catalog, storage>>
       ELSE LET here == resolve_inode(parent)
                path == IF is_absolute(link_target) THEN Some(link_target)
                        ELSE IF IsSome(here) THEN Some(clean(Unwrap(here) \o link_target))
                        ELSE here
            IN IF IsNone(path)
               THEN /\ reply' = ReplyError("ENOENT")
                    /\ UNCHANGED <<catalog, storage>>
               ELSE LET target == strip_prefix(Unwrap(path), base)
                        ino == IF IsSome(target) THEN resolve(Unwrap(target)) ELSE PANIC
                    IN IF Panics(ino)
                       THEN /\ reply' = ReplyPanic
                            /\ UNCHANGED <<catalog, storage>>
                       ELSE IF IsNone(ino)
                       THEN /\ reply' = ReplyError("EPERM")
                            /\ UNCHANGED <<catalog, storage>>
                       ELSE CASE kind(Unwrap(ino)) \in {"Special", "Tag", "Tagged"} ->
                                   /\ reply' = ReplyError("EPERM")
                                   /\ UNCHANGED <<catalog, storage>>
                              [] kind(Unwrap(ino)) = "Comic" ->
                                   /\ Rows < MaxRows
                                   /\ taggables' = Taggable_comic(id(Unwrap(ino)), id(parent))
                                   /\ LET info == LastInserted(taggables')
                                          linked == resolve_inode(InodeComic(info.id))
                                      IN reply' = IF IsSome(linked)
                                                  THEN ReplyEntry(symlink_attr(InodeTagged(info.id),
                                                                  PathLen(Unwrap(linked))))
                                                  ELSE ReplyPanic
                                   /\ UNCHANGED <<comics, eposides, files, tags, storage>>
                              [] kind(Unwrap(ino)) \in {"Eposide", "File"} ->
                                   /\ reply' = ReplyPanic
                                   /\ UNCHANGED <<catalog, storage>>

\* Channel::receive: the reply is out, the session reads the next request
receive ==
    /\ ~Waiting
    /\ reply.kind # "panic"
    /\ request' = Idle
    /\ reply' = NoReply
    /\ UNCHANGED <<catalog, storage, process>>

\* the handler panicked and the process is gone: the daemon is started again
\* on the same database and pool
mount ==
    /\ reply.kind = "panic"
    /\ request' = Idle
    /\ reply' = NoReply
    /\ UNCHANGED <<catalog, storage, process>>

(***************************************************************************)
(* The specification: any request, one at a time.                          *)
(***************************************************************************)
\* FUSE dispatch: the session has read a request and calls its handler
OnLookup == Waiting /\ UNCHANGED process /\ \E parent \in Inodes, name \in LookupNames : lookup(parent, name)
OnGetattr == Waiting /\ UNCHANGED process /\ \E ino \in Inodes : getattr(ino)
OnReaddir == Waiting /\ UNCHANGED process /\ \E ino \in Inodes, offset \in Offsets : readdir(ino, offset)
OnRead == Waiting /\ UNCHANGED process /\ \E ino \in Inodes, offset \in Offsets, size \in Sizes : read(ino, offset, size)
OnReadlink == Waiting /\ UNCHANGED process /\ \E ino \in Inodes : readlink(ino)
OnMkdir == Waiting /\ UNCHANGED process /\ \E parent \in Known, name \in Names : mkdir(parent, name)
OnCreate == Waiting /\ UNCHANGED process /\ \E parent \in Known, name \in Names : create(parent, name)
OnSetattr ==
    Waiting /\ UNCHANGED process /\ \E ino \in Inodes, size \in {None} \cup {Some(n) : n \in Sizes} : setattr(ino, size)
OnWrite == Waiting /\ UNCHANGED process /\ \E ino \in Inodes, offset \in Offsets, data \in Datas : write(ino, offset, data)
OnLink ==
    Waiting /\ UNCHANGED process /\ \E ino \in Known, newparent \in Known, newname \in LinkNames :
                  link(ino, newparent, newname)
OnSymlink ==
    Waiting /\ UNCHANGED process /\ \E parent \in Known, name \in LinkNames, target \in LinkTargets :
                  symlink(parent, name, target)

Next ==
    \/ receive
    \/ mount
    \/ OnLookup
    \/ OnGetattr
    \/ OnReaddir
    \/ OnRead
    \/ OnReadlink
    \/ OnMkdir
    \/ OnCreate
    \/ OnSetattr
    \/ OnWrite
    \/ OnLink
    \/ OnSymlink

Spec == Init /\ [][Next]_vars

(***************************************************************************)
(* The mount lifecycle: one process from fs::mount to its exit.  The       *)
(* catalog and the pool are not touched.                                   *)
(***************************************************************************)
InitChannel ==
    /\ comics = << >>
    /\ eposides = << >>
    /\ files = << >>
    /\ tags = << >>
    /\ taggables = << >>
    /\ shards = {}
    /\ pool = << >>
    /\ request = Idle
    /\ reply = NoReply
    /\ options \in OptionLists
    /\ args = None
    /\ calls = << >>
    /\ channel = None
    /\ mounted = FALSE
    /\ pc = "main"

\* Channel::new under fs::mount: canonicalize, with_fuse_args,
\* fuse_session_new, fuse_session_mount, fuse_session_fd.  An Err reaches the
\* unwrap of fs::mount and a panic ends the process.
Channel_new ==
    /\ pc = "main"
    /\ \E canonical, created, mount_ok \in BOOLEAN :
         LET given == with_fuse_args(options)
         IN IF ~canonical
            THEN /\ pc' = "exited"
                 /\ UNCHANGED <<args, calls, channel, mounted>>
            ELSE IF Panics(given) \/ ~created
            THEN /\ args' = given
                 /\ pc' = "exited"
                 /\ UNCHANGED <<calls, channel, mounted>>
            ELSE IF ~mount_ok
            THEN /\ args' = given
                 /\ calls' = <<"fuse_session_new", "fuse_session_mount">>
                 /\ pc' = "exited"
                 /\ UNCHANGED <<channel, mounted>>
            ELSE /\ args' = given
                 /\ calls' = <<"fuse_session_new", "fuse_session_mount", "fuse_session_fd">>
                 /\ channel' = Some([mountpoint |-> base, se |-> "session"])
                 /\ mounted' = TRUE
                 /\ pc' = "run"
    /\ UNCHANGED <<catalog, storage, request, reply, options>>

\* the ctrlc handler of main: unmount("mnt") runs fusermount3 -q -u -z
ctrlc_handler ==
    /\ pc # "exited"
    /\ mounted' = FALSE
    /\ UNCHANGED <<catalog, storage, request, reply, options, args, calls, channel, pc>>

\* the mount is gone: the session loop ends, the session and its channel
\* are dropped and fs::mount returns
Session_end ==
    /\ pc = "run"
    /\ ~mounted
    /\ calls' = drop(calls)
    /\ channel' = None
    /\ pc' = "exited"
    /\ UNCHANGED <<catalog, storage, request, reply, options, args, mounted>>

NextChannel ==
    \/ Channel_new
    \/ ctrlc_handler
    \/ Session_end

SpecChannel == InitChannel /\ [][NextChannel]_vars

(***************************************************************************)
(* Host failures.  The calls write makes on the host filesystem can fail   *)
(* (a full disk, a shard directory that cannot be written, EMFILE); the    *)
(* handler unwraps each result, so a failed call panics where it stands    *)
(* and what the handler did before it stays.                               *)
(***************************************************************************)
HostCalls == {"create_dir_all", "File::create", "open", "write_at"}

\* write on a host where the call `failing`, if the handler reaches it, fails
write_on_host(ino, offset, data, failing) ==
    /\ request' = [op |-> "write", ino |-> ino, offset |-> offset, data |-> data]
    /\ IF kind(ino) # "File"
       THEN /\ reply' = ReplyError("EISDIR")
            /\ UNCHANGED <<catalog, storage>>
       ELSE LET info == File_find(id(ino))
            IN IF IsNone(info)
               THEN /\ reply' = ReplyError("ENOENT")
                    /\ UNCHANGED <<catalog, storage>>
               ELSE IF Unwrap(info).content_hash = << >>
               THEN LET res == Sha256Hex(data)
                        path == Unwrap(generate_storage_path(res))
                    IN CASE failing = "create_dir_all" ->
                              /\ reply' = ReplyPanic
                              /\ UNCHANGED <<catalog, storage>>
                         [] failing = "File::create" ->
                              /\ shards' = shards \cup {path[1]}
                              /\ files' = update_content_hash(Unwrap(info), res)
                              /\ reply' = ReplyPanic
                              /\ UNCHANGED <<comics, eposides, tags, taggables, pool>>
                         [] failing = "write_at" ->
                              /\ shards' = shards \cup {path[1]}
                              /\ files' = update_content_hash(Unwrap(info), res)
                              /\ pool' = Put(path, << >>)
                              /\ reply' = ReplyPanic
                              /\ UNCHANGED <<comics, eposides, tags, taggables>>
                         [] OTHER ->
                              /\ shards' = shards \cup {path[1]}
                              /\ files' = update_content_hash(Unwrap(info), res)
                              /\ pool' = Put(path, write_at(<< >>, data, offset))
                              /\ reply' = ReplyWritten(Len(data))
                              /\ UNCHANGED <<comics, eposides, tags, taggables>>
               ELSE LET path == Unwrap(generate_storage_path(Unwrap(info).content_hash))
                    IN IF ~Exists(path) \/ failing \in {"open", "write_at"}
                       THEN /\ reply' = ReplyPanic
                            /\ UNCHANGED <<catalog, storage>>
                       ELSE /\ pool' = Put(path, write_at(pool[path], data, offset))
                            /\ reply' = ReplyWritten(Len(data))
                            /\ UNCHANGED <<catalog, shards>>

OnWriteOnHost ==
    Waiting /\ UNCHANGED process /\ \E ino \in Inodes, offset \in Offsets, data \in Datas, failing \in HostCalls :
                  write_on_host(ino, offset, data, failing)

\* the requests that reach a File and its blob, on a host whose calls can fail
NextFault ==
    \/ receive
    \/ mount
    \/ OnMkdir
    \/ OnCreate
    \/ OnWrite
    \/ OnWriteOnHost
    \/ OnRead
    \/ OnGetattr
    \/ OnSetattr

SpecFault == Init /\ [][NextFault]_vars

(***************************************************************************)
(* Properties.                                                             *)
(***************************************************************************)
\* the File row an inode names, in the current catalog
FileOf(ino) == Unwrap(File_find(id(ino)))
IsFileRow(ino) == kind(ino) = "File" /\ IsSome(File_find(id(ino)))

\* C1: a write at offset 0 to a File whose content_hash is empty replies the
\* length of its data, and a read of that length at offset 0 straight after
\* it replies exactly the data written.
C1_WriteThenRead ==
    [][(/\ Waiting
        /\ request'.op = "write"
        /\ request'.offset = 0
        /\ IsFileRow(request'.ino)
        /\ FileOf(request'.ino).content_hash = << >>)
       => (/\ reply' = ReplyWritten(Len(request'.data))
           /\ read_reply(request.ino, 0, Len(request.data))' = ReplyData(request'.data))]_vars

\* a first write of a full buffer at offset 0 has been served: the row holds
\* the digest of the data and the blob holds the data
C1_Witness ==
    /\ request.op = "write"
    /\ request.offset = 0
    /\ Len(request.data) = MaxData
    /\ reply = ReplyWritten(MaxData)
    /\ IsFileRow(request.ino)
    /\ FileOf(request.ino).content_hash = Sha256Hex(request.data)
    /\ read_reply(request.ino, 0, MaxData) = ReplyData(request.data)

\* C2: a read of a File whose row exists and whose content_hash is empty
\* replies an empty buffer: a success reply of 0 bytes, no errno, no panic.
C2_ReadOfEmptyFileRepliesNoBytes ==
    (/\ request.op = "read"
     /\ IsFileRow(request.ino)
     /\ FileOf(request.ino).content_hash = << >>)
    => reply = ReplyData(<< >>)

C5_SymlinkReadlinkRoundTrip ==
    (/\ request.op = "symlink"
     /\ kind(request.parent) = "Tag"
     /\ IsSome(Tag_find(id(request.parent)))
     /\ \E n \in Names : request.link = <<"comics", n>> /\ IsSome(Comic_find_by_name(n)))
    => (/\ reply.kind = "entry"
        /\ readlink_reply(reply.attr.ino) = ReplyData(base \o request.link))

\* the comic a symlink target names: the path, made absolute and cleaned,
\* is <base>/comics/<name>
NamedComic(parent, link_target) ==
    LET abs == IF is_absolute(link_target) THEN link_target
               ELSE clean(Unwrap(resolve_inode(parent)) \o link_target)
    IN IF /\ Len(abs) = Len(base) + 2
          /\ SubSeq(abs, 1, Len(base)) = base
          /\ abs[Len(base) + 1] = "comics"
       THEN Comic_find_by_name(abs[Len(base) + 2])
       ELSE None

\* C6: a symlink under Tag t that succeeds with a target naming Comic c adds
\* exactly one Taggable row, with tag_id = t.id, kind comic and target id
\* c.id; the replied inode is the Tagged inode of that row; readdir(t, 0)
\* lists a Symlink entry named c.name.
C6_SymlinkInsertsTaggable ==
    [][(Waiting /\ request'.op = "symlink" /\ reply'.kind = "entry")
       => LET t == request'.parent
              c == NamedComic(request'.parent, request'.link)
              listing == readdir_reply(request.parent, 0)'
          IN /\ IsSome(c)
             /\ taggables' = Append(taggables,
                                    [id |-> NextId(taggables), tag_id |-> id(t),
                                     taggable_id |-> Unwrap(c).id, taggable_type |-> "comic"])
             /\ kind(reply'.attr.ino) = "Tagged"
             /\ id(reply'.attr.ino) = NextId(taggables)
             /\ listing.kind = "directory"
             /\ \E j \in 1..Len(listing.entries) :
                  /\ listing.entries[j].kind = "Symlink"
                  /\ listing.entries[j].name = Unwrap(c).name]_vars

\* the inode of the entity a taggable row names by (taggable_type, taggable_id)
TargetOfRow(row) ==
    CASE row.taggable_type = "comic" -> InodeComic(row.taggable_id)
      [] row.taggable_type = "eposide" -> InodeEposide(row.taggable_id)
      [] row.taggable_type = "file" -> InodeFile(row.taggable_id)

TagInodes == {ino \in Inodes : kind(ino) = "Tag"}

\* C7: for every Tagged inode a readdir of a tag directory lists, readlink
\* returns a path below the base whose forward resolution is the inode of
\* the entity the Taggable row names.
C7_ReadlinkResolvesToTarget ==
    \A t \in TagInodes :
        LET listing == readdir_reply(t, 0)
        IN \A j \in 1..Len(listing.entries) :
             LET e == listing.entries[j]
                 row == Taggable_find(id(e.ino))
                 answer == readlink_reply(e.ino)
             IN /\ kind(e.ino) = "Tagged"
                /\ IsSome(row)
                /\ answer.kind = "data"
                /\ IsSome(strip_prefix(answer.data, base))
                /\ resolve(Unwrap(strip_prefix(answer.data, base))) = Some(TargetOfRow(Unwrap(row)))

\* readlink has answered for the second entry of a tag directory
C7_Witness ==
    /\ request.op = "readlink"
    /\ reply.kind = "data"
    /\ \E t \in TagInodes :
         /\ Len(readdir_reply(t, 0).entries) >= 2
         /\ readdir_reply(t, 0).entries[2].ino = request.ino

\* the directories the kernel can hold: the special nodes and the rows
DirInodes == {ino \in Known : kind(ino) \in {"Special", "Comic", "Eposide", "Tag"}}

\* C8: for every directory inode and every entry (n, i) of its readdir at
\* offset 0 that is a catalog entity, lookup(ino, n) replies attrs with
\* inode i.
C8_ReaddirLookupAgree ==
    \A ino \in DirInodes :
        LET listing == readdir_reply(ino, 0)
        IN /\ listing.kind = "directory"
           /\ \A j \in 1..Len(listing.entries) :
                LET e == listing.entries[j]
                    found == lookup_reply(ino, e.name)
                IN e.name \notin {".", ".."} =>
                     (found.kind = "entry" /\ found.attr.ino = e.ino)

CatalogPaths ==
    {<<"comics">>, <<"tags">>}
    \cup {<<"comics", n>> : n \in Names}
    \cup {<<"comics", n, m>> : n, m \in Names}
    \cup {<<"comics", n, m, k>> : n, m, k \in Names}
    \cup {<<"tags", n>> : n \in Names}

\* C9: for every path comics, tags, comics/<c>, comics/<c>/<e>,
\* comics/<c>/<e>/<f>, tags/<t> that names an existing entity, the reverse
\* resolution of its forward resolution is <base>/<path>.
C9_ReverseOfForward ==
    \A p \in CatalogPaths :
        LET ino == resolve(p)
        IN IsSome(ino) => resolve_inode(Unwrap(ino)) = Some(base \o p)

\* create has replied the File comics/a/bb/a, which reverse-resolves to it
C9_Witness ==
    /\ request.op = "create"
    /\ reply.kind = "created"
    /\ resolve(<<"comics", "a", "bb", "a">>) = Some(reply.attr.ino)
    /\ resolve_inode(reply.attr.ino) = Some(base \o <<"comics", "a", "bb", "a">>)

\* the inode numbers of a reply
ReplyInodes ==
    CASE reply.kind \in {"entry", "attr", "created"} -> {reply.attr.ino}
      [] reply.kind = "directory" -> {reply.entries[j].ino : j \in 1..Len(reply.entries)}
      [] OTHER -> {}

\* C10: every inode number i of a reply satisfies encode(kind(i), id(i)) = i
\* and, unless it is one of the special nodes, has exactly one marker bit.
C10_ReplyInodesWellFormed ==
    \A i \in ReplyInodes :
        /\ encode(kind(i), id(i)) = i
        /\ i \notin Specials => Cardinality(i.marks \cap MARK_MASK) = 1

\* symlink has replied the Tagged inode of a new row
C10_Witness ==
    /\ request.op = "symlink"
    /\ reply.kind = "entry"
    /\ kind(reply.attr.ino) = "Tagged"
    /\ IsSome(Taggable_find(id(reply.attr.ino)))

\* the inodes of the rows of the catalog, by the constructor of their table
RowInodes ==
    UNION {{encode(k, TableOf(k)[i].id) : i \in 1..Len(TableOf(k))} : k \in Kinds}

\* C11: the inodes 1, 2 and 3 classify as Special, and no inode built from a
\* row of a positive id, by any of the five constructors, is 1, 2 or 3 or
\* classifies as Special.
C11_SpecialsNotAliased ==
    /\ \A s \in Specials : is_special(s) /\ kind(s) = "Special"
    /\ \A k \in Kinds : \A n \in 1..(MaxRows + 1) :
         /\ encode(k, n) \notin Specials
         /\ ~is_special(encode(k, n))
         /\ kind(encode(k, n)) = k
    /\ \A ino \in RowInodes : ino \notin Specials /\ kind(ino) # "Special"

\* getattr has replied the inode of the taggable row whose id is the
\* reserved number 3, next to rows of the ids 1 and 2
C11_Witness ==
    /\ request.op = "getattr"
    /\ reply.kind = "attr"
    /\ reply.attr.ino = InodeTagged(TAGS_ID)
    /\ {InodeTagged(ROOT_ID), InodeTagged(COMIC_ID), InodeTagged(TAGS_ID)} \subseteq RowInodes

\* table2 is table with one more row, of a new id, at its end
OneRowMore(table, table2) ==
    /\ Len(table2) = Len(table) + 1
    /\ SubSeq(table2, 1, Len(table)) = table
    /\ \A i \in 1..Len(table) : table[i].id # table2[Len(table2)].id

C13_MkdirRefusals ==
    [][(Waiting /\ request'.op = "mkdir")
       => /\ (\/ request'.parent = InodeFrom(ROOT_ID)
              \/ kind(request'.parent) \in {"Eposide", "Tag"})
             => (reply' = ReplyError("EPERM") /\ UNCHANGED <<catalog, storage>>)
          /\ kind(request'.parent) \in {"File", "Tagged"}
             => (reply' = ReplyError("ENOTDIR") /\ UNCHANGED <<catalog, storage>>)]_vars

\* mkdir under a Tagged inode of a row has been refused with ENOTDIR
C13_Witness ==
    /\ request.op = "mkdir"
    /\ kind(request.parent) = "Tagged"
    /\ IsSome(Taggable_find(id(request.parent)))
    /\ reply = ReplyError("ENOTDIR")

\* what create does under an Episode: one File row more, of that episode and
\* name and with an empty content_hash; the created attrs carry the File
\* inode of the new row; lookup(parent, name) then replies that inode
CreateInsertsAndIsFound ==
    LET found == lookup_reply(request.parent, request.name)'
        row == files'[Len(files')]
    IN /\ OneRowMore(files, files')
       /\ row.name = request'.name
       /\ row.eposid_id = id(request'.parent)
       /\ row.content_hash = << >>
       /\ UNCHANGED <<comics, eposides, tags, taggables, storage>>
       /\ reply'.kind = "created"
       /\ reply'.attr.ino = InodeFile(row.id)
       /\ kind(reply'.attr.ino) = "File"
       /\ found.kind = "entry"
       /\ found.attr.ino = reply'.attr.ino

C15_ReadWriteRefusals ==
    [][(Waiting /\ request'.op \in {"read", "write"})
       => /\ kind(request'.ino) # "File"
             => (reply' = ReplyError("EISDIR") /\ UNCHANGED <<catalog, storage>>)
          /\ (kind(request'.ino) = "File" /\ IsNone(File_find(id(request'.ino))))
             => (reply' = ReplyError("ENOENT") /\ UNCHANGED <<catalog, storage>>)]_vars

\* a write to a File inode that has no row, next to a File that has one, has
\* been refused with ENOENT
C15_Witness ==
    /\ request.op = "write"
    /\ kind(request.ino) = "File"
    /\ Len(request.data) = MaxData
    /\ IsNone(File_find(id(request.ino)))
    /\ files # << >>
    /\ reply = ReplyError("ENOENT")

\* C16: setattr replies ENOSYS for every inode that is not a File, ENOENT
\* for a File inode without a row, and for a File whose content_hash is empty
\* the synthetic attrs of size 0, whatever size is asked; it then changes no
\* row and no blob.
C16_SetattrWithoutBlob ==
    [][(Waiting /\ request'.op = "setattr")
       => /\ kind(request'.ino) # "File"
             => (reply' = ReplyError("ENOSYS") /\ UNCHANGED <<catalog, storage>>)
          /\ (kind(request'.ino) = "File" /\ IsNone(File_find(id(request'.ino))))
             => (reply' = ReplyError("ENOENT") /\ UNCHANGED <<catalog, storage>>)
          /\ (IsFileRow(request'.ino) /\ FileOf(request'.ino).content_hash = << >>)
             => (/\ reply' = ReplyAttr(file_attr(request'.ino))
                 /\ reply'.attr.size = 0
                 /\ UNCHANGED <<catalog, storage>>)]_vars

\* a setattr of the largest size on a File with an empty content_hash has
\* been answered with the attrs of size 0, while the pool holds blobs
C16_Witness ==
    /\ request.op = "setattr"
    /\ request.size = Some(MaxSize)
    /\ IsFileRow(request.ino)
    /\ FileOf(request.ino).content_hash = << >>
    /\ reply = ReplyAttr(file_attr(request.ino))
    /\ DOMAIN pool # {}

\* the blob of a File row with a content_hash
BlobOf(ino) == pool[Unwrap(generate_storage_path(FileOf(ino).content_hash))]

ReadlinkAnswer(ino) ==
    IF kind(ino) # "Tagged" THEN ReplyError("EINVAL")
    ELSE LET row == Taggable_find(id(ino))
         IN IF IsNone(row) THEN ReplyError("ENOENT")
            ELSE LET path == resolve_inode(TargetOfRow(Unwrap(row)))
                 IN IF IsNone(path) THEN ReplyError("ENOENT")
                    ELSE ReplyData(Unwrap(path))

\* C18: readlink replies EINVAL for every inode that is not Tagged; for a
\* Tagged inode it replies the reverse-resolved path of the target of the
\* taggable row of that id, and ENOENT when the row or its target is absent.
C18_ReadlinkAnswers ==
    [][(Waiting /\ request'.op = "readlink")
       => (/\ reply' = ReadlinkAnswer(request'.ino)
           /\ UNCHANGED <<catalog, storage>>)]_vars

\* readlink of a Tagged inode whose row names a comic that does not exist
\* has been answered with ENOENT
C18_Witness ==
    /\ request.op = "readlink"
    /\ kind(request.ino) = "Tagged"
    /\ IsSome(Taggable_find(id(request.ino)))
    /\ IsNone(Comic_find(Unwrap(Taggable_find(id(request.ino))).taggable_id))
    /\ reply = ReplyError("ENOENT")

\* the target of a symlink request as the handler resolves it: made absolute
\* against the directory of the parent, cleaned, the base stripped
StrippedTarget(parent, link_target) ==
    LET here == resolve_inode(parent)
        abs == IF is_absolute(link_target) THEN link_target
               ELSE IF IsSome(here) THEN clean(Unwrap(here) \o link_target)
               ELSE << >>
    IN strip_prefix(abs, base)

\* a path below comics/
UnderComics(p) == Len(p) >= 2 /\ p[1] = "comics"

\* C19: symlink replies EPERM and inserts no Taggable when its parent is not
\* a Tag, and when its parent is a Tag and the target, the base stripped, is
\* not a path under comics/: the root, comics, tags, tags/<tag>, a path
\* below tags/<tag>/, or a path with another first component.
C19_SymlinkRefusals ==
    [][(Waiting /\ request'.op = "symlink")
       => LET target == StrippedTarget(request'.parent, request'.link)
          IN /\ kind(request'.parent) # "Tag"
                => (reply' = ReplyError("EPERM") /\ UNCHANGED <<catalog, storage>>)
             /\ (/\ kind(request'.parent) = "Tag"
                 /\ IsSome(target)
                 /\ ~UnderComics(Unwrap(target)))
                => (reply' = ReplyError("EPERM") /\ UNCHANGED <<catalog, storage>>)]_vars

\* C20: symlink under a Tag with a target that resolves to an existing
\* Episode or File inserts one Taggable of kind episode resp. file with the
\* id of that target, and replies symlink attrs of the new Tagged inode.
C20_SymlinkToEpisodeOrFile ==
    [][(/\ Waiting
        /\ request'.op = "symlink"
        /\ kind(request'.parent) = "Tag"
        /\ IsSome(StrippedTarget(request'.parent, request'.link))
        /\ UnderComics(Unwrap(StrippedTarget(request'.parent, request'.link)))
        /\ Len(Unwrap(StrippedTarget(request'.parent, request'.link))) \in {3, 4}
        /\ IsSome(resolve(Unwrap(StrippedTarget(request'.parent, request'.link)))))
       => LET target == Unwrap(resolve(Unwrap(StrippedTarget(request'.parent, request'.link))))
              row == taggables'[Len(taggables')]
          IN /\ OneRowMore(taggables, taggables')
             /\ row.taggable_type = (IF kind(target) = "Eposide" THEN "eposide" ELSE "file")
             /\ row.taggable_id = id(target)
             /\ reply'.kind = "entry"
             /\ reply'.attr.kind = "Symlink"
             /\ reply'.attr.ino = InodeTagged(row.id)]_vars

\* C21: link of an existing Comic c into an existing Tag t inserts one
\* Taggable row with tag_id = t.id, kind comic and target id c.id, and
\* replies the attrs of the Tagged inode of the new row.
C21_LinkInsertsTaggable ==
    [][(/\ Waiting
        /\ request'.op = "link"
        /\ kind(request'.ino) = "Comic"
        /\ IsSome(Comic_find(id(request'.ino)))
        /\ kind(request'.newparent) = "Tag"
        /\ IsSome(Tag_find(id(request'.newparent))))
       => /\ OneRowMore(taggables, taggables')
          /\ taggables'[Len(taggables')].tag_id = id(request'.newparent)
          /\ taggables'[Len(taggables')].taggable_type = "comic"
          /\ taggables'[Len(taggables')].taggable_id = id(request'.ino)
          /\ reply'.kind = "entry"
          /\ kind(reply'.attr.ino) = "Tagged"
          /\ id(reply'.attr.ino) = taggables'[Len(taggables')].id]_vars

\* C22: a link whose newparent is not a Tag inode (the root, comics, tags,
\* a Comic, an Episode, a File, a Tagged) adds no row to the catalog.
C22_LinkOnlyIntoTag ==
    [][(Waiting /\ request'.op = "link" /\ kind(request'.newparent) # "Tag")
       => UNCHANGED catalog]_vars

\* the rows a directory lists, by the filter of its table: every Comic,
\* every Tag, the Episodes of a comic, the Files of an episode, the
\* Taggables of a tag
ListedRows(ino) ==
    CASE ino = InodeFrom(COMIC_ID) -> comics
      [] ino = InodeFrom(TAGS_ID) -> tags
      [] kind(ino) = "Comic" -> Filter(eposides, LAMBDA r : r.comic_id = id(ino))
      [] kind(ino) = "Eposide" -> Filter(files, LAMBDA r : r.eposid_id = id(ino))
      [] kind(ino) = "Tag" -> Filter(taggables, LAMBDA r : r.tag_id = id(ino))

\* the inode and the type of the entry readdir adds for a row of a directory
ListedInode(ino, row) ==
    CASE ino = InodeFrom(COMIC_ID) -> InodeComic(row.id)
      [] ino = InodeFrom(TAGS_ID) -> InodeTag(row.id)
      [] kind(ino) = "Comic" -> InodeEposide(row.id)
      [] kind(ino) = "Eposide" -> InodeFile(row.id)
      [] kind(ino) = "Tag" -> InodeTagged(row.id)
ListedType(ino) ==
    CASE kind(ino) = "Eposide" -> "RegularFile"
      [] kind(ino) = "Tag" -> "Symlink"
      [] OTHER -> "Directory"

\* C23: for every directory inode, readdir at offset 0 replies the complete
\* listing (the root: ., .., comics, tags; comics, tags, a Comic, an Episode,
\* a Tag: one entry per row of the filter of its table, in order), and
\* readdir at an offset above 0 replies the empty listing, a success.
C23_ReaddirListsAll ==
    [][(/\ Waiting
        /\ request'.op = "readdir"
        /\ kind(request'.ino) \in {"Special", "Comic", "Eposide", "Tag"})
       => LET ino == request'.ino
              entries == reply'.entries
          IN /\ reply'.kind = "directory"
             /\ UNCHANGED <<catalog, storage>>
             /\ request'.offset > 0 => entries = << >>
             /\ (request'.offset = 0 /\ ino = InodeFrom(ROOT_ID))
                => (/\ [i \in 1..Len(entries) |-> entries[i].name] = <<".", "..", "comics", "tags">>
                    /\ [i \in 1..Len(entries) |-> entries[i].ino.node] = <<1, 1, 2, 3>>)
             /\ (request'.offset = 0 /\ ino # InodeFrom(ROOT_ID))
                => (/\ Len(entries) = Len(ListedRows(ino))
                    /\ \A i \in 1..Len(entries) :
                         /\ entries[i].ino = ListedInode(ino, ListedRows(ino)[i])
                         /\ entries[i].kind = ListedType(ino)
                         /\ entries[i].offset = i)]_vars

\* C24: every handler invocation completes with exactly one reply, a success
\* envelope or one errno, for every operation and every inode kind; no
\* request is left without a reply, link on an Episode or a File included.
C24_EveryRequestIsReplied ==
    ~Waiting =>
        reply.kind \in {"entry", "attr", "created", "directory", "data", "written", "error"}

\* no two rows of the table agree on the key
UniqueBy(table, Key(_)) ==
    \A i, j \in 1..Len(table) : Key(table[i]) = Key(table[j]) => i = j

\* the name of a mkdir or create request is taken by a sibling
Collides(req) ==
    \/ /\ req.op = "mkdir"
       /\ \/ req.parent = InodeFrom(COMIC_ID) /\ \E i \in 1..Len(comics) : comics[i].name = req.name
          \/ req.parent = InodeFrom(TAGS_ID) /\ \E i \in 1..Len(tags) : tags[i].name = req.name
          \/ /\ kind(req.parent) = "Comic"
             /\ \E i \in 1..Len(eposides) :
                  eposides[i].comic_id = id(req.parent) /\ eposides[i].name = req.name
    \/ /\ req.op = "create"
       /\ kind(req.parent) = "Eposide"
       /\ \E i \in 1..Len(files) :
            files[i].eposid_id = id(req.parent) /\ files[i].name = req.name

\* C25: after every request no two Comics share a name, no two Tags share a
\* name, no two Episodes of one comic share a name and no two Files of one
\* episode share a name; a mkdir or create whose name collides with an
\* existing sibling fails (no success reply) and adds no row.
C25_SiblingNamesUnique ==
    [][/\ UniqueBy(comics', LAMBDA r : r.name)
       /\ UniqueBy(tags', LAMBDA r : r.name)
       /\ UniqueBy(eposides', LAMBDA r : <<r.comic_id, r.name>>)
       /\ UniqueBy(files', LAMBDA r : <<r.eposid_id, r.name>>)
       /\ (Waiting /\ Collides(request'))
          => (/\ UNCHANGED <<catalog, storage>>
              /\ reply'.kind \notin {"entry", "created"})]_vars

\* two comics hold an episode of the same name each, and a mkdir of that
\* name under the second comic has failed
C25_Witness ==
    /\ request.op = "mkdir"
    /\ kind(request.parent) = "Comic"
    /\ id(request.parent) = 2
    /\ Len(eposides) = 2
    /\ eposides[1].name = eposides[2].name
    /\ eposides[1].comic_id # eposides[2].comic_id
    /\ eposides[2].name = request.name
    /\ reply.kind = "panic"

\* parent has a child named name: the two directories of the root, a Comic
\* under comics, a Tag under tags, an Episode of the comic, a File of the
\* episode
HasChild(parent, name) ==
    CASE parent = InodeFrom(ROOT_ID) -> name \in {"comics", "tags"}
      [] parent = InodeFrom(COMIC_ID) -> \E i \in 1..Len(comics) : comics[i].name = name
      [] parent = InodeFrom(TAGS_ID) -> \E i \in 1..Len(tags) : tags[i].name = name
      [] kind(parent) = "Comic" ->
           \E i \in 1..Len(eposides) :
               eposides[i].comic_id = id(parent) /\ eposides[i].name = name
      [] kind(parent) = "Eposide" ->
           \E i \in 1..Len(files) : files[i].eposid_id = id(parent) /\ files[i].name = name

\* C26: for a parent that is the root, comics, tags, a Comic or an Episode,
\* lookup(parent, name) replies ENOENT exactly when the parent has no child
\* of that name, and an entry otherwise: at the root only comics and tags
\* are found, and under an empty comics (tags) table every lookup is ENOENT.
C26_LookupEnoentIffNoChild ==
    [][(/\ Waiting
        /\ request'.op = "lookup"
        /\ kind(request'.parent) \in {"Special", "Comic", "Eposide"})
       => /\ (reply' = ReplyError("ENOENT")) <=> ~HasChild(request'.parent, request'.name)
          /\ HasChild(request'.parent, request'.name) => reply'.kind = "entry"
          /\ (request'.parent = InodeFrom(COMIC_ID) /\ comics = << >>)
             => reply' = ReplyError("ENOENT")
          /\ (request'.parent = InodeFrom(TAGS_ID) /\ tags = << >>)
             => reply' = ReplyError("ENOENT")
          /\ UNCHANGED <<catalog, storage>>]_vars

\* how often a call was made on the session
Made(call) == Cardinality({i \in 1..Len(calls) : calls[i] = call})

\* C27: every session Channel::new creates is released on every exit path
\* (normal drop, mount failure after the session was created, signal-driven
\* shutdown), and the release calls fuse_session_unmount before
\* fuse_session_destroy, each exactly once.
C27_SessionAlwaysReleased ==
    /\ (pc = "exited" /\ Made("fuse_session_new") = 1)
       => (Made("fuse_session_unmount") = 1 /\ Made("fuse_session_destroy") = 1)
    /\ Made("fuse_session_unmount") <= 1
    /\ Made("fuse_session_destroy") <= 1
    /\ \A i, j \in 1..Len(calls) :
         (calls[i] = "fuse_session_unmount" /\ calls[j] = "fuse_session_destroy") => i < j

\* no option holds a NUL byte
WithoutNul(opts) == \A i \in 1..Len(opts) : \A j \in 1..Len(opts[i]) : opts[i][j] # 0

\* the fuse_args are those of the claim: argc = n + 1, element 0 reads
\* "fuse-rs", element i reads the i-th option
ArgsAsGiven ==
    /\ IsSome(args)
    /\ Unwrap(args).argc = Len(options) + 1
    /\ Len(Unwrap(args).argv) = Unwrap(args).argc
    /\ CStr_to_bytes(Unwrap(args).argv[1]) = ProgramName
    /\ \A i \in 1..Len(options) : CStr_to_bytes(Unwrap(args).argv[i + 1]) = options[i]

\* C28 as stated: for any option list of length n, with_fuse_args builds an
\* argument vector with argc = n + 1 whose element 0 is "fuse-rs" and whose
\* elements 1..n are the options in their order, unchanged.
C28_ArgsOfAnyOptions == args # None => ArgsAsGiven

\* C28, amended: the same for any option list none of whose options holds
\* a NUL byte.
C28_ArgsOfOptionsWithoutNul == (args # None /\ WithoutNul(options)) => ArgsAsGiven

\* with_fuse_args was given two different options, the second of two bytes
C28_Witness ==
    /\ IsSome(args)
    /\ Len(options) = 2
    /\ Len(options[1]) = 1
    /\ Len(options[2]) = 2
    /\ options[2][1] # options[2][2]
    /\ Unwrap(args).argc = 3

\* C29: for every entry of the directory of an existing Tag, lookup(tag,
\* entry name) replies symlink attrs of the Tagged inode of a row listed
\* under that name, whose size is the byte length of the target path: the
\* length of the bytes readlink returns for that inode.
C29_TagLookupSizeIsTargetLength ==
    \A t \in TagInodes \cap Known :
        LET listing == readdir_reply(t, 0)
        IN \A j \in 1..Len(listing.entries) :
             LET e == listing.entries[j]
                 found == lookup_reply(t, e.name)
             IN /\ found.kind = "entry"
                /\ found.attr.kind = "Symlink"
                /\ \E k \in 1..Len(listing.entries) :
                     /\ listing.entries[k].name = e.name
                     /\ listing.entries[k].ino = found.attr.ino
                /\ readlink_reply(found.attr.ino).kind = "data"
                /\ found.attr.size = PathLen(readlink_reply(found.attr.ino).data)

\* C30: whenever lookup(parent, name) replies attrs A with inode i, getattr(i)
\* in the same state replies the same attrs A (inode, kind, size, perm),
\* Tagged inodes included, whose size is the byte length of the target path.
C30_GetattrAgreesWithLookup ==
    \A parent \in Inodes : \A name \in LookupNames :
        LET found == lookup_reply(parent, name)
        IN found.kind = "entry" => getattr_reply(found.attr.ino) = ReplyAttr(found.attr)

\* the blob path of a content hash: <first two digits>/<hash>
BlobPath(h) == <<SubSeq(h, 1, 2), h>>

C32_EmptyWriteCreatesNoBlob ==
    [][(/\ Waiting
        /\ request'.op = "write"
        /\ request'.data = << >>
        /\ IsFileRow(request'.ino)
        /\ FileOf(request'.ino).content_hash = << >>)
       => (/\ DOMAIN pool' = DOMAIN pool
           /\ FileOf(request.ino)'.content_hash = << >>)]_vars

\* C33: for any two distinct File rows f and g, a write or a setattr with a
\* size on f changes no byte that a read of g returns, also when the first
\* writes of f and g carried the same data.
C33_WriteLeavesOtherFilesAlone ==
    [][(/\ Waiting
        /\ request'.op \in {"write", "setattr"}
        /\ IsFileRow(request'.ino))
       => \A i \in 1..Len(files) : \A offset \in Offsets, size \in Sizes :
            files[i].id # id(request'.ino)
            => read_reply(InodeFile(files[i].id), offset, size)'
                 = read_reply(InodeFile(files[i].id), offset, size)]_vars

\* C34: lookup, getattr, readdir, read and readlink leave every catalog
\* table and the content of every blob as they were, whatever their
\* arguments and whatever they reply.
C34_ReadOnlyHandlers ==
    [][(Waiting /\ request'.op \in {"lookup", "getattr", "readdir", "read", "readlink"})
       => (/\ UNCHANGED <<comics, eposides, files, tags, taggables>>
           /\ DOMAIN pool' = DOMAIN pool
           /\ \A p \in DOMAIN pool : pool'[p] = pool[p])]_vars

\* a read has answered the bytes of a blob that is still in the pool, next
\* to a taggable row
C34_Witness ==
    /\ request.op = "read"
    /\ request.offset = 0
    /\ reply = ReplyData(<<1>>)
    /\ IsFileRow(request.ino)
    /\ BlobOf(request.ino) = <<1>>
    /\ taggables # << >>

\* C35: whenever mkdir, create, link, symlink, write or setattr replies an
\* errno, the catalog tables and the blob pool are what they were before the
\* request.
C35_ErrnoChangesNothing ==
    [][(/\ Waiting
        /\ request'.op \in {"mkdir", "create", "link", "symlink", "write", "setattr"}
        /\ reply'.kind = "error")
       => UNCHANGED <<catalog, storage>>]_vars

\* a symlink under a Tag, to the tags directory, has been refused with EPERM
\* while the catalog holds a taggable row
C35_Witness ==
    /\ request.op = "symlink"
    /\ kind(request.parent) = "Tag"
    /\ request.link = base \o <<"tags">>
    /\ reply = ReplyError("EPERM")
    /\ taggables # << >>

\* the entity a taggable row names by (taggable_type, taggable_id) exists
TargetExists(row) ==
    CASE row.taggable_type = "comic" -> IsSome(Comic_find(row.taggable_id))
      [] row.taggable_type = "eposide" -> IsSome(Episode_find(row.taggable_id))
      [] row.taggable_type = "file" -> IsSome(File_find(row.taggable_id))
      [] OTHER -> FALSE

\* C36: the catalog is referentially closed: the tag_id of every Taggable is
\* the id of a Tag and its (taggable_type, taggable_id) names an existing
\* Comic, Episode or File; the comic_id of every Episode names a Comic; the
\* episode id of every File names an Episode.
C36_ReferentiallyClosed ==
    /\ \A i \in 1..Len(taggables) :
         /\ IsSome(Tag_find(taggables[i].tag_id))
         /\ TargetExists(taggables[i])
    /\ \A i \in 1..Len(eposides) : IsSome(Comic_find(eposides[i].comic_id))
    /\ \A i \in 1..Len(files) : IsSome(Episode_find(files[i].eposid_id))

\* the rows of the catalog as (table, id) pairs
RowKeys == UNION {{<<k, TableOf(k)[i].id>> : i \in 1..Len(TableOf(k))} : k \in Kinds}

\* the ids of the rows a table holds are the ids it held, row by row
IdsKept(table, table2) ==
    /\ Len(table2) >= Len(table)
    /\ \A i \in 1..Len(table) : table2[i].id = table[i].id

\* C37: the inode encoding is injective and stable: two distinct rows, of
\* one table or of two, and the three special nodes have pairwise distinct
\* inode numbers; kind and id of a row's inode give back its table and its
\* id; the id of a row never changes, and every inode number of a reply is
\* that of a special node or of a row, so a row is replied under one number
\* for its whole lifetime.
C37_InodesInjectiveAndStable ==
    [][/\ \A a, b \in RowKeys' : encode(a[1], a[2]) = encode(b[1], b[2]) => a = b
       /\ \A a \in RowKeys' :
            /\ encode(a[1], a[2]) \notin Specials
            /\ kind(encode(a[1], a[2])) = a[1]
            /\ id(encode(a[1], a[2])) = a[2]
       /\ \A s, t \in Specials : s.node = t.node => s = t
       /\ IdsKept(comics, comics')
       /\ IdsKept(eposides, eposides')
       /\ IdsKept(files, files')
       /\ IdsKept(tags, tags')
       /\ IdsKept(taggables, taggables')
       /\ \A k \in Kinds : \A i, j \in 1..Len(TableOf(k)') :
            TableOf(k)'[i].id = TableOf(k)'[j].id => i = j
       /\ ReplyInodes' \subseteq (Specials \cup RowInodes')]_vars

\* lookup has replied the File of id 1 while a Comic, an Episode and a Tag
\* of id 1 exist
C37_Witness ==
    /\ request.op = "lookup"
    /\ reply.kind = "entry"
    /\ reply.attr.ino = InodeFile(1)
    /\ {<<"Comic", 1>>, <<"Eposide", 1>>, <<"File", 1>>, <<"Tag", 1>>} \subseteq RowKeys

\* C38: if the first write to a File with an empty content_hash fails
\* before its blob is created and written (the creation of the shard
\* directory, the creation of the blob or the write of the bytes fails),
\* the content_hash of the row remains empty.
C38_FailedFirstWriteKeepsHashEmpty ==
    [][(/\ Waiting
        /\ request'.op = "write"
        /\ IsFileRow(request'.ino)
        /\ FileOf(request'.ino).content_hash = << >>
        /\ reply'.kind # "written")
       => FileOf(request.ino)'.content_hash = << >>]_vars

\* C39: the readdir at offset 0 of every Tag directory holds no two entries
\* of one name, so that each listed name stands for one Tagged inode, also
\* after one entity was tagged twice under one tag.
C39_TagListingNamesUnique ==
    \A t \in TagInodes \cap Known :
        LET entries == readdir_reply(t, 0).entries
        IN \A i, j \in 1..Len(entries) : entries[i].name = entries[j].name => i = j

====
